---- MODULE Spec2Model ----
(***************************************************************************)
(* Model of nodes.py of comfyui-inpaint-nodes: the weight-patch registry   *)
(* and injector (load_fooocus_patch, inject_patched_calculate_weight,      *)
(* calculate_weight_patched, ApplyFooocusInpaint.patch), the inference     *)
(* pipeline InpaintWithModel.inpaint and DenoiseToCompositingMask.convert. *)
(*                                                                         *)
(* Tensors are finite sequences of exact numbers; the shape of a tensor is *)
(* the length of its sequence.  Weights are numerators over 255, so that   *)
(* the dequantisation (w / 255) * (max - min) + min stays in the integers. *)
(***************************************************************************)
EXTENDS Integers, Sequences, FiniteSets, TLC

VARIABLES
    injected,          \* injected_model_patcher_calculate_weight (nodes.py:67)
    calculate_weight,  \* ModelPatcher.calculate_weight: the chain of wrappers,
                       \* outermost first, around the host's resolver (<<>>);
                       \* a wrapper is named by the call that made it
    injectCalls,       \* number of completed sequential calls of the injector
    last,              \* the most recent completed call and what it produced
    pc,                \* concurrent callers of the injector: the line each is at
    orig,              \* their local original_calculate_weight (nodes.py:73)
    installs,          \* assignments of nodes.py:78 done by them
    ipc,               \* inpaint: the line the call is at
    arch,              \* inpaint_model.model_arch
    image, mask,       \* the image and mask arguments, as the host passes them
    seed,              \* the seed argument
    upscale,           \* optional_upscale_model is not None
    required_size,     \* nodes.py:360-362
    image_t, mask_t,   \* image and mask as rebound at nodes.py:374-378
    idx,               \* i + 1 of the loop at nodes.py:382
    rng,               \* torch's global generator: its seed, draws since seeding
    work,              \* work_image: the stage it is at, its pixels once known
    denorm,            \* what undo_resize_square returned, per item
    batch_image,       \* nodes.py:380, 399
    log,               \* the steps executed so far, in order
    result,            \* the returned image batch
    cin, cout          \* convert: its arguments and its outcome

patchVars   == <<injected, calculate_weight, injectCalls, last>>
concVars    == <<pc, orig, installs>>
inpaintVars == <<ipc, arch, image, mask, seed, upscale, required_size, image_t,
                 mask_t, idx, rng, work, denorm, batch_image, log, result>>
convertVars == <<cin, cout>>
vars == <<patchVars, concVars, inpaintVars, convertVars>>

----------------------------------------------------------------------------
(* Bounds *)
MaxCalls == 3
MaxPatches == 2
NumThreads == 3
MaxBatch == 2
Grid == 4

----------------------------------------------------------------------------
(* Tensors and patches *)

\* 255.0 of the dequantisation recipe; weights are numerators over it
Quant == 255

Weights == {<<0>>, <<255>>, <<0, 0>>, <<255, 0>>}

\* a patch is (alpha, v, _); v is ("fooocus", (w, min, max)) or a patch of
\* another kind, here a plain difference ("diff", (w,))
FooocusPatches ==
    {[alpha |-> a, kind |-> "fooocus", w |-> w, mn |-> m[1], mx |-> m[2]] :
        a \in {1, 2}, w \in {<<255>>, <<0, 128>>}, m \in {<<0, 1>>, <<-1, 1>>}}

OtherPatches ==
    {[alpha |-> 1, kind |-> "diff", w |-> w, mn |-> 0, mx |-> 0] :
        w \in {<<255>>, <<0, 255>>}}

PatchSet == FooocusPatches \cup OtherPatches

RECURSIVE SeqsUpTo(_, _)
SeqsUpTo(S, n) ==
    IF n = 0 THEN {<<>>}
    ELSE LET shorter == SeqsUpTo(S, n - 1)
         IN  shorter \cup {Append(s, x) : s \in {t \in shorter : Len(t) = n - 1}, x \in S}

PatchLists == SeqsUpTo(PatchSet, MaxPatches)

\* elementwise weight + alpha * d, shapes equal
AddScaled(weight, alpha, d) == [j \in 1..Len(weight) |-> weight[j] + alpha * d[j]]

\* w1_normalized = (w1 / 255.0) * (w_max - w_min) + w_min, times 255
Dequantize(p) == [j \in 1..Len(p.w) |-> p.w[j] * (p.mx - p.mn) + Quant * p.mn]

\* the host's resolver, bound at nodes.py:66: it merges the patches it knows
\* (a difference of the weight's shape is added) and returns the weight
RECURSIVE original_calculate_weight(_, _)
original_calculate_weight(patches, weight) ==
    IF patches = <<>> THEN weight
    ELSE LET p == Head(patches)
             w2 == IF p.kind = "diff" /\ Len(p.w) = Len(weight)
                   THEN AddScaled(weight, p.alpha, p.w)
                   ELSE weight
         IN  original_calculate_weight(Tail(patches), w2)

----------------------------------------------------------------------------
(* calculate_weight_patched (nodes.py:84-100) *)

NoSeq == <<>>

\* one iteration of the loop over patches: the weight after it
PatchStepPartial(weight, p) ==
    IF p.kind = "fooocus"
    THEN LET d == Dequantize(p)
         IN  [j \in 1..Len(weight) |->
                 IF j <= Len(p.w) THEN weight[j] + p.alpha * d[j] ELSE weight[j]]
    ELSE weight

PatchStep(weight, p) ==
    IF p.kind = "fooocus"
    THEN IF Len(p.w) = Len(weight)
         THEN AddScaled(weight, p.alpha, Dequantize(p))
         ELSE weight              \* "Shape mismatch": printed, not merged
    ELSE weight

RECURSIVE PatchLoop(_, _)
PatchLoop(patches, weight) ==
    IF patches = <<>> THEN weight
    ELSE PatchLoop(Tail(patches), PatchStep(weight, Head(patches)))

\* the call calculate_weight_patched(self, patches, weight, key): self is
\* never called, the weight is changed in place and nothing is returned
calculate_weight_patched(self, patches, weight) ==
    [weight    |-> PatchLoop(patches, weight),
     returned  |-> FALSE,
     ret       |-> NoSeq,
     raised    |-> FALSE,
     origCalls |-> 0]

\* number of positional parameters of calculate_weight_patched
PatchedArity == 4

\* positional arguments the installed attribute receives: the host's bound
\* call m.calculate_weight(patches, weight, key) passes m as well
CallForms == {"bound", "class"}
NArgs(form) == IF form = "bound" THEN 4 ELSE 3

\* patched_calculate_weight(*args) (nodes.py:75-76) prepends the captured
\* resolver to its arguments
patched_calculate_weight(captured, form, patches, weight) ==
    IF 1 + NArgs(form) = PatchedArity
    THEN calculate_weight_patched(captured, patches, weight)
    ELSE [weight |-> weight, returned |-> FALSE, ret |-> NoSeq,
          raised |-> TRUE, origCalls |-> 0]          \* TypeError

\* a call of ModelPatcher.calculate_weight as currently installed
Resolver(cw, form, patches, weight) ==
    IF cw = <<>>
    THEN LET w2 == original_calculate_weight(patches, weight)
         IN  [weight |-> w2, returned |-> TRUE, ret |-> w2,
              raised |-> FALSE, origCalls |-> 1]
    ELSE patched_calculate_weight(Tail(cw), form, patches, weight)

----------------------------------------------------------------------------
(* inject_patched_calculate_weight (nodes.py:69-80), run start to end *)

InjectUnguarded(flag, cw, id) == [flag |-> TRUE, cw |-> <<id>> \o cw]

inject_patched_calculate_weight(flag, cw, id) ==
    IF ~flag
    THEN [flag |-> TRUE, cw |-> <<id>> \o cw]
    ELSE [flag |-> flag, cw |-> cw]

----------------------------------------------------------------------------
(* load_fooocus_patch (nodes.py:50-62) *)

LoraKeys == {"a", "b"}
ModelKeys == {"a", "k"}
LoraValues == {"t1", "t2"}

PartialMaps(K, V) == UNION {[S -> V] : S \in SUBSET K}

Loras == PartialMaps(LoraKeys, LoraValues)
KeyMaps == PartialMaps(ModelKeys, LoraKeys)

\* the keys whose lora.get(value) is not None
loaded_keys(lora, to_load) == {k \in DOMAIN to_load : to_load[k] \in DOMAIN lora}

load_fooocus_patch(lora, to_load) ==
    LET lk == loaded_keys(lora, to_load)
    IN  [patch_dict |-> [k \in lk |-> <<"fooocus", lora[to_load[k]]>>],
         loaded     |-> Cardinality(lk),
         not_loaded |-> Cardinality({x \in DOMAIN lora : x \notin lk})]

----------------------------------------------------------------------------
(* Initial states *)

PatchInit ==
    /\ injected = FALSE
    /\ calculate_weight = <<>>
    /\ injectCalls = 0
    /\ last = [op |-> "none"]

Threads == 1..NumThreads

ConcIdle ==
    /\ pc = [t \in Threads |-> "idle"]
    /\ orig = [t \in Threads |-> <<>>]
    /\ installs = 0

InpaintIdle ==
    /\ ipc = "idle"
    /\ arch = "MAT"
    /\ image = <<>>
    /\ mask = <<>>
    /\ seed = 0
    /\ upscale = FALSE
    /\ required_size = 0
    /\ image_t = <<>>
    /\ mask_t = <<>>
    /\ idx = 0
    /\ rng = [seed |-> -1, draws |-> 0]
    /\ work = [stage |-> "none", px |-> <<>>]
    /\ denorm = <<>>
    /\ batch_image = <<>>
    /\ log = <<>>
    /\ result = <<>>

ConvertIdle ==
    /\ cin = [mask |-> <<>>, offset |-> 0, threshold |-> 1]
    /\ cout = [state |-> "idle"]

----------------------------------------------------------------------------
(* The weight-patch operations, each call run to completion *)

\* a call of inject_patched_calculate_weight()
Inject ==
    /\ injectCalls < MaxCalls
    /\ LET r == inject_patched_calculate_weight(injected, calculate_weight,
                                                injectCalls + 1)
       IN  /\ injected' = r.flag
           /\ calculate_weight' = r.cw
           /\ last' = [op |-> "inject", id |-> injectCalls + 1,
                       flagBefore |-> injected, cwBefore |-> calculate_weight]
    /\ injectCalls' = injectCalls + 1

\* Resolve, CallPatched and ApplyPatch leave the installation alone and last
\* keeps one call only, so they are taken from the states the injector leaves:
\* every state they can produce is produced from one of these
Fresh == last.op \in {"none", "inject"}

\* a weight resolution through ModelPatcher.calculate_weight
Resolve ==
    /\ Fresh
    /\ \E form \in CallForms, patches \in PatchLists, weight \in Weights :
        /\ form = "class" => calculate_weight # <<>>
        /\ last' = [op |-> "resolve", form |-> form, patches |-> patches,
                    w0 |-> weight, installed |-> calculate_weight,
                    out |-> Resolver(calculate_weight, form, patches, weight)]
        /\ UNCHANGED <<injected, calculate_weight, injectCalls>>

\* a direct call calculate_weight_patched(resolver, patches, weight, key)
CallPatched ==
    /\ Fresh
    /\ \E patches \in PatchLists, weight \in Weights :
        /\ last' = [op |-> "patched", patches |-> patches, w0 |-> weight,
                    out |-> calculate_weight_patched(<<>>, patches, weight)]
        /\ UNCHANGED <<injected, calculate_weight, injectCalls>>

\* ApplyFooocusInpaint.patch (nodes.py:141-168): the clone it returns carries
\* the table of load_fooocus_patch at strength 1.0
ApplyPatch ==
    /\ Fresh
    /\ \E lora \in Loras, to_load \in KeyMaps :
        LET r == load_fooocus_patch(lora, to_load)
        IN  /\ last' = [op |-> "patch", lora |-> lora, to_load |-> to_load,
                        patches |-> r.patch_dict, strength |-> 1,
                        loaded |-> r.loaded, not_loaded |-> r.not_loaded]
            /\ UNCHANGED <<injected, calculate_weight, injectCalls>>

Init == PatchInit /\ ConcIdle /\ InpaintIdle /\ ConvertIdle

Next ==
    \/ Inject /\ UNCHANGED <<concVars, inpaintVars, convertVars>>
    \/ Resolve /\ UNCHANGED <<concVars, inpaintVars, convertVars>>
    \/ CallPatched /\ UNCHANGED <<concVars, inpaintVars, convertVars>>
    \/ ApplyPatch /\ UNCHANGED <<concVars, inpaintVars, convertVars>>

Spec == Init /\ [][Next]_vars

----------------------------------------------------------------------------
(* Concurrent callers of inject_patched_calculate_weight: a thread may be   *)
(* switched out between any two statements of nodes.py:71-79               *)

Call(t) ==
    /\ pc[t] = "idle"
    /\ pc' = [pc EXCEPT ![t] = "l71"]
    /\ UNCHANGED <<orig, installs, patchVars>>

\* if not injected_model_patcher_calculate_weight:
Check(t) ==
    /\ pc[t] = "l71"
    /\ pc' = [pc EXCEPT ![t] = IF ~injected THEN "l73" ELSE "done"]
    /\ UNCHANGED <<orig, installs, patchVars>>

\* original_calculate_weight = ModelPatcher.calculate_weight
ReadOriginal(t) ==
    /\ pc[t] = "l73"
    /\ orig' = [orig EXCEPT ![t] = calculate_weight]
    /\ pc' = [pc EXCEPT ![t] = "l78"]
    /\ UNCHANGED <<installs, patchVars>>

\* ModelPatcher.calculate_weight = patched_calculate_weight
Install(t) ==
    /\ pc[t] = "l78"
    /\ calculate_weight' = <<t>> \o orig[t]
    /\ installs' = installs + 1
    /\ pc' = [pc EXCEPT ![t] = "l79"]
    /\ UNCHANGED <<orig, injected, injectCalls, last>>

\* injected_model_patcher_calculate_weight = True
SetFlag(t) ==
    /\ pc[t] = "l79"
    /\ injected' = TRUE
    /\ pc' = [pc EXCEPT ![t] = "done"]
    /\ UNCHANGED <<orig, installs, calculate_weight, injectCalls, last>>

NextConc ==
    \E t \in Threads :
        \/ Call(t) /\ UNCHANGED <<inpaintVars, convertVars>>
        \/ Check(t) /\ UNCHANGED <<inpaintVars, convertVars>>
        \/ ReadOriginal(t) /\ UNCHANGED <<inpaintVars, convertVars>>
        \/ Install(t) /\ UNCHANGED <<inpaintVars, convertVars>>
        \/ SetFlag(t) /\ UNCHANGED <<inpaintVars, convertVars>>

SpecConc == Init /\ [][NextConc]_vars

----------------------------------------------------------------------------
(* Properties of the weight-patch injector *)

\* C1: after one or more sequential calls of the injector, the installed
\* resolver is the wrapper the first call made, wrapping the host's resolver
\* once, the flag is set, and a call after the first changed neither.
C1_InstallIdempotent ==
    /\ injectCalls >= 1 => injected /\ calculate_weight = <<1>>
    /\ (last.op = "inject" /\ last.id > 1) =>
           /\ injected = last.flagBefore
           /\ calculate_weight = last.cwBefore

C1_Witness ==
    /\ last.op = "inject"
    /\ last.id >= 2
    /\ calculate_weight = <<1>>

\* what the dense-diff patches of a list add to element j of a weight of
\* shape n: the sum of alpha * ((w / 255) * (max - min) + min) over the
\* dense-diff patches of that shape, as a numerator over 255
RECURSIVE DenseSum(_, _, _)
DenseSum(patches, n, j) ==
    IF patches = <<>> THEN 0
    ELSE LET p == Head(patches)
             c == IF p.kind = "fooocus" /\ Len(p.w) = n
                  THEN p.alpha * (p.w[j] * (p.mx - p.mn) + Quant * p.mn)
                  ELSE 0
         IN  c + DenseSum(Tail(patches), n, j)

DenseApplied(w0, patches) ==
    [j \in 1..Len(w0) |-> w0[j] + DenseSum(patches, Len(w0), j)]

NonDense(patches) == SelectSeq(patches, LAMBDA p : p.kind # "fooocus")

\* C2: through the installed interception, the weight returned to the caller
\* is what the original resolver returns for the non-dense-diff patches of
\* the list; a list without dense-diff patches resolves as before.
C2_DelegatesToOriginal ==
    (last.op = "resolve" /\ last.installed # <<>>) =>
        /\ ~last.out.raised
        /\ last.out.returned
        /\ last.out.ret = original_calculate_weight(NonDense(last.patches),
                                                    DenseApplied(last.w0, last.patches))

\* C3: calculate_weight_patched does not raise; a dense-diff patch of another
\* shape than the weight leaves every element alone, the patches after it are
\* still applied, and each dense-diff patch of the weight's shape adds
\* alpha * ((w / 255) * (max - min) + min) to it.
C3_MismatchSkipped ==
    last.op = "patched" =>
        /\ ~last.out.raised
        /\ last.out.weight = DenseApplied(last.w0, last.patches)

C3_Witness ==
    /\ last.op = "patched"
    /\ Len(last.patches) = 2
    /\ last.patches[1].kind = "fooocus"
    /\ Len(last.patches[1].w) # Len(last.w0)
    /\ last.patches[2].kind = "fooocus"
    /\ Len(last.patches[2].w) = Len(last.w0)
    /\ last.out.weight # last.w0

\* C4: under every interleaving of concurrent callers exactly one performs
\* the installation, and the installed resolver is never a wrapper around a
\* wrapper.
C4_SingleInstall ==
    /\ installs <= 1
    /\ Len(calculate_weight) <= 1

\* C5: once ApplyFooocusInpaint.patch has returned a patched clone, the
\* interception of ModelPatcher.calculate_weight is installed.
C5_PatchInstalls ==
    last.op = "patch" => injected /\ calculate_weight # <<>>

\* C9: the table holds exactly the key-map keys whose mapped diff-dict entry
\* exists, each tagged dense-diff with that entry's value, and the count
\* reported as unmapped is the number of diff-dict keys no key-map entry
\* refers to.
C9_TableAndUnmapped ==
    last.op = "patch" =>
        /\ DOMAIN last.patches =
               {k \in DOMAIN last.to_load : last.to_load[k] \in DOMAIN last.lora}
        /\ \A k \in DOMAIN last.patches :
               last.patches[k] = <<"fooocus", last.lora[last.to_load[k]]>>
        /\ last.not_loaded =
               Cardinality({x \in DOMAIN last.lora :
                               \A k \in DOMAIN last.to_load : last.to_load[k] # x})

----------------------------------------------------------------------------
(* InpaintWithModel.inpaint (nodes.py:350-402), statement by statement.     *)
(* An image of the host is a sequence over positions of pixels, a pixel a  *)
(* sequence over channels; a mask gives one value per position, a          *)
(* numerator over Grid.                                                    *)

Channels == {1, 2}

ComfyImages == {<<<<0, 1>>, <<2, 3>>>>, <<<<3, 2>>, <<1, 0>>>>}
ComfyMasks == {<<0, Grid>>, <<Grid, Grid - 1>>, <<1, 0>>}
\* what the model, the upscaler and undo_resize_square may leave
ModelOutputs == {<<<<5, 6>>, <<7, 8>>>>}
Seeds == {0, 7}
Archs == {"MAT", "LaMa", "SD"}

SeqsFromTo(S, lo, hi) == {s \in SeqsUpTo(S, hi) : Len(s) >= lo}

\* to_torch: positions x channels becomes channels x positions
to_torch(img) == [c \in Channels |-> [q \in 1..Len(img) |-> img[q][c]]]

\* to_comfy: channels x positions becomes positions x channels
to_comfy(t) == [q \in 1..Len(t[1]) |-> [c \in Channels |-> t[c][q]]]

\* nodes.py:359-364
ArchSizeLenient(a) ==
    IF a = "MAT" THEN [raised |-> FALSE, size |-> 512]
    ELSE [raised |-> FALSE, size |-> 256]

ArchSize(a) ==
    IF a = "MAT" THEN [raised |-> FALSE, size |-> 512]
    ELSE IF a = "LaMa" THEN [raised |-> FALSE, size |-> 256]
    ELSE [raised |-> TRUE, size |-> 0]           \* ValueError

\* nodes.py:376-378: the mask batch the loop reads
Broadcast(m, batch_size) ==
    IF Len(m) # batch_size THEN [i \in 1..batch_size |-> m[1]] ELSE m

floor(m) == m \div Grid

\* nodes.py:397: image[i] + (work_image - image[i]) * mask[i].floor()
CompositeSoft(img, wrk, msk) ==
    [c \in Channels |-> [q \in 1..Len(msk) |->
        img[c][q] + ((wrk[c][q] - img[c][q]) * msk[q]) \div Grid]]

Composite(img, wrk, msk) ==
    [c \in Channels |-> [q \in 1..Len(msk) |->
        img[c][q] + (wrk[c][q] - img[c][q]) * floor(msk[q])]]

\* the statement that follows each statement of the loop body
StepAfterSeedOnce(loc, up, i) ==
    CASE loc = "l383" -> IF i = 1 THEN "l387" ELSE "l388"
      [] loc = "l387" -> "l388"
      [] loc = "l388" -> IF up THEN "l390" ELSE "l396"
      [] loc = "l390" -> "l396"
      [] loc = "l396" -> "l397"
      [] loc = "l397" -> "l382"

StepAfter(loc, up, i) ==
    CASE loc = "l383" -> "l387"
      [] loc = "l387" -> "l388"
      [] loc = "l388" -> IF up THEN "l390" ELSE "l396"
      [] loc = "l390" -> "l396"
      [] loc = "l396" -> "l397"
      [] loc = "l397" -> "l382"

Event(e) == [ev |-> e, i |-> idx, rng |-> rng]

\* the arguments of the call
args == <<arch, image, mask, seed, upscale>>

InpaintInit ==
    /\ ipc = "l359"
    /\ arch \in Archs
    /\ image \in SeqsFromTo(ComfyImages, 1, MaxBatch)
    /\ mask \in SeqsFromTo(ComfyMasks, 1, MaxBatch)
    /\ seed \in Seeds
    /\ upscale \in BOOLEAN
    /\ required_size = 0
    /\ image_t = <<>>
    /\ mask_t = <<>>
    /\ idx = 0
    /\ rng = [seed |-> -1, draws |-> 0]
    /\ work = [stage |-> "none", px |-> <<>>]
    /\ denorm = <<>>
    /\ batch_image = <<>>
    /\ log = <<>>
    /\ result = <<>>

\* nodes.py:359-364
ArchCheck ==
    /\ ipc = "l359"
    /\ LET r == ArchSize(arch)
       IN  /\ ipc' = IF r.raised THEN "raised" ELSE "l367"
           /\ required_size' = r.size
    /\ UNCHANGED <<args, image_t, mask_t, idx, rng, work, denorm, batch_image,
                   log, result>>

\* nodes.py:367-380: device move, upscaler load, tensor conversion, broadcast
\* (to_torch returning tensors that have .cpu())
Prepare ==
    /\ ipc = "l367"
    /\ log' = log \o <<Event("CPU")>>
                  \o (IF upscale THEN <<Event("LOAD_UPSCALER")>> ELSE <<>>)
                  \o <<Event("TO_TORCH")>>
    /\ image_t' = [i \in 1..Len(image) |-> to_torch(image[i])]
    /\ mask_t' = Broadcast(mask, Len(image))
    /\ batch_image' = <<>>
    /\ ipc' = "l382"
    /\ UNCHANGED <<args, required_size, idx, rng, work, denorm, result>>

\* nodes.py:374 calls .cpu() on what to_torch(image, mask) returns; line 284
\* unpacks that value into two, and a pair has no .cpu(): AttributeError
PrepareRaises ==
    /\ ipc = "l367"
    /\ log' = log \o <<Event("CPU")>>
                  \o (IF upscale THEN <<Event("LOAD_UPSCALER")>> ELSE <<>>)
    /\ ipc' = "raised374"
    /\ UNCHANGED <<args, required_size, image_t, mask_t, idx, rng, work, denorm,
                   batch_image, result>>

\* nodes.py:382: for i in range(batch_size)
LoopNext ==
    /\ ipc = "l382"
    /\ idx < Len(image)
    /\ idx' = idx + 1
    /\ ipc' = "l383"
    /\ UNCHANGED <<args, required_size, image_t, mask_t, rng, work, denorm,
                   batch_image, log, result>>

\* nodes.py:383-385: resize_square and the floor of the resized mask
Normalize ==
    /\ ipc = "l383"
    /\ work' = [stage |-> "square", px |-> <<>>]
    /\ log' = Append(log, Event("NORMALIZE"))
    /\ ipc' = StepAfter("l383", upscale, idx)
    /\ UNCHANGED <<args, required_size, image_t, mask_t, idx, rng, denorm,
                   batch_image, result>>

\* nodes.py:387: torch.manual_seed(seed)
SeedRng ==
    /\ ipc = "l387"
    /\ rng' = [seed |-> seed, draws |-> 0]
    /\ log' = Append(log, [ev |-> "SEED", i |-> idx, rng |-> rng'])
    /\ ipc' = StepAfter("l387", upscale, idx)
    /\ UNCHANGED <<args, required_size, image_t, mask_t, idx, work, denorm,
                   batch_image, result>>

\* nodes.py:388: work_image = inpaint_model(work_image, work_mask)
Forward ==
    /\ ipc = "l388"
    /\ log' = Append(log, Event("MODEL_FORWARD"))
    /\ rng' = [rng EXCEPT !.draws = 1]
    /\ work' = [stage |-> "inpainted", px |-> <<>>]
    /\ ipc' = StepAfter("l388", upscale, idx)
    /\ UNCHANGED <<args, required_size, image_t, mask_t, idx, denorm,
                   batch_image, result>>

\* nodes.py:390-394
Upscale ==
    /\ ipc = "l390"
    /\ log' = Append(log, Event("UPSCALE"))
    /\ work' = [stage |-> "upscaled", px |-> <<>>]
    /\ ipc' = StepAfter("l390", upscale, idx)
    /\ UNCHANGED <<args, required_size, image_t, mask_t, idx, rng, denorm,
                   batch_image, result>>

\* nodes.py:396: undo_resize_square; an identity model leaves the item itself
Denormalize ==
    /\ ipc = "l396"
    /\ \E d \in {image_t[idx]} \cup ModelOutputs :
           /\ work' = [stage |-> "denormalized", px |-> d]
           /\ denorm' = Append(denorm, d)
    /\ log' = Append(log, Event("DENORMALIZE"))
    /\ ipc' = StepAfter("l396", upscale, idx)
    /\ UNCHANGED <<args, required_size, image_t, mask_t, idx, rng, batch_image,
                   result>>

\* nodes.py:397-399
CompositeItem ==
    /\ ipc = "l397"
    /\ batch_image' = Append(batch_image, Composite(image_t[idx], work.px, mask_t[idx]))
    /\ work' = [stage |-> "composited", px |-> <<>>]
    /\ log' = Append(log, Event("COMPOSITE"))
    /\ ipc' = StepAfter("l397", upscale, idx)
    /\ UNCHANGED <<args, required_size, image_t, mask_t, idx, rng, denorm,
                   result>>

\* nodes.py:401-402: torch.cat and to_comfy
Finish ==
    /\ ipc = "l382"
    /\ idx = Len(image)
    /\ result' = [i \in 1..Len(batch_image) |-> to_comfy(batch_image[i])]
    /\ ipc' = "done"
    /\ UNCHANGED <<args, required_size, image_t, mask_t, idx, rng, work,
                   denorm, batch_image, log>>



NextInpaint ==
    \/ ArchCheck /\ UNCHANGED <<patchVars, concVars, convertVars>>
    \/ Prepare /\ UNCHANGED <<patchVars, concVars, convertVars>>
    \/ PrepareRaises /\ UNCHANGED <<patchVars, concVars, convertVars>>
    \/ LoopNext /\ UNCHANGED <<patchVars, concVars, convertVars>>
    \/ Normalize /\ UNCHANGED <<patchVars, concVars, convertVars>>
    \/ SeedRng /\ UNCHANGED <<patchVars, concVars, convertVars>>
    \/ Forward /\ UNCHANGED <<patchVars, concVars, convertVars>>
    \/ Upscale /\ UNCHANGED <<patchVars, concVars, convertVars>>
    \/ Denormalize /\ UNCHANGED <<patchVars, concVars, convertVars>>
    \/ CompositeItem /\ UNCHANGED <<patchVars, concVars, convertVars>>
    \/ Finish /\ UNCHANGED <<patchVars, concVars, convertVars>>

InitInpaint == PatchInit /\ ConcIdle /\ InpaintInit /\ ConvertIdle

SpecInpaint == InitInpaint /\ [][NextInpaint]_vars

----------------------------------------------------------------------------
(* DenoiseToCompositingMask.convert (nodes.py:426-430).  Mask values,       *)
(* offset and threshold are numerators over Grid; a result is a fraction.  *)

Frac(n, d) == [num |-> n, den |-> d]

FracMul(x, y) == Frac(x.num * y.num, x.den * y.den)

\* mask.clamp(0, 1) of a fraction with a positive denominator
clamp(x) ==
    IF x.num <= 0 THEN Frac(0, 1)
    ELSE IF x.num >= x.den THEN Frac(1, 1)
    ELSE x

convertOrderOnly(m, offset, threshold) ==
    IF ~(offset < threshold)
    THEN [raised |-> TRUE, mask |-> <<>>]
    ELSE [raised |-> FALSE,
          mask |-> [j \in 1..Len(m) |->
                       clamp(FracMul(Frac(m[j] - offset, Grid),
                                     Frac(Grid, threshold - offset)))]]

convert(m, offset, threshold) ==
    IF ~(0 <= offset /\ offset < threshold /\ threshold <= Grid)
    THEN [raised |-> TRUE, mask |-> <<>>]          \* AssertionError
    ELSE [raised |-> FALSE,
          mask |-> [j \in 1..Len(m) |->
                       clamp(FracMul(Frac(m[j] - offset, Grid),
                                     Frac(Grid, threshold - offset)))]]

ConvertInit ==
    /\ cin \in [mask : (0..Grid) \X (0..Grid),
                offset : -1..(Grid + 1),
                threshold : -1..(Grid + 1)]
    /\ cout = [state |-> "idle"]

Convert ==
    /\ cout.state = "idle"
    /\ LET r == convert(cin.mask, cin.offset, cin.threshold)
       IN  cout' = [state |-> "done", raised |-> r.raised, mask |-> r.mask]
    /\ UNCHANGED cin

NextConvert == Convert /\ UNCHANGED <<patchVars, concVars, inpaintVars>>

InitConvert == PatchInit /\ ConcIdle /\ InpaintIdle /\ ConvertInit

SpecConvert == InitConvert /\ [][NextConvert]_vars

----------------------------------------------------------------------------
(* Properties of the inference pipeline and of the mask converter *)

KnownArch == arch \in {"MAT", "LaMa"}

\* C6: with an architecture tag that is neither MAT nor LaMa, inpaint raises
\* before any other step: nothing is moved, loaded, converted, normalized,
\* seeded or invoked, and no image is returned.
C6_UnknownArchFailsFast ==
    /\ ~KnownArch =>
           /\ ipc \in {"l359", "raised"}
           /\ log = <<>>
           /\ rng.seed = -1
           /\ batch_image = <<>>
           /\ result = <<>>
    /\ ipc = "raised" => ~KnownArch

C6_Witness == ipc = "raised" /\ arch = "SD"

\* C7: for every batch item, position and channel the final output is the
\* original image where floor(mask) is 0 and the denormalized model output
\* where floor(mask) is 1; the mask of an item is its own, or the first one
\* when the mask batch is of another size than the image batch.
ItemMask(i) == IF Len(mask) = Len(image) THEN mask[i] ELSE mask[1]

C8_ConvertContract ==
    cout.state = "done" =>
        IF ~(0 <= cin.offset /\ cin.offset < cin.threshold /\ cin.threshold <= Grid)
        THEN cout.raised /\ cout.mask = <<>>
        ELSE /\ ~cout.raised
             /\ Len(cout.mask) = Len(cin.mask)
             /\ \A j \in 1..Len(cin.mask) :
                    LET r == cout.mask[j]
                        m == cin.mask[j]
                    IN  /\ r.den > 0
                        /\ m <= cin.offset => r.num = 0
                        /\ m >= cin.threshold => r.num = r.den
                        /\ (cin.offset < m /\ m < cin.threshold) =>
                               r.num * (cin.threshold - cin.offset)
                                   = (m - cin.offset) * r.den

C8_Witness ==
    /\ cout.state = "done"
    /\ ~cout.raised
    /\ cin.mask[1] = cin.offset
    /\ cin.mask[2] = cin.threshold

\* the pipeline steps of the batch, in the order the claim gives
ItemSteps(up) ==
    <<"NORMALIZE", "SEED", "MODEL_FORWARD">>
        \o (IF up THEN <<"UPSCALE">> ELSE <<>>)
        \o <<"DENORMALIZE", "COMPOSITE">>

RECURSIVE ExpectedSteps(_, _)
ExpectedSteps(n, up) ==
    IF n = 0 THEN <<>>
    ELSE ExpectedSteps(n - 1, up)
             \o [k \in 1..Len(ItemSteps(up)) |-> <<ItemSteps(up)[k], n>>]

ItemLog ==
    LET l == SelectSeq(log, LAMBDA e : e.i > 0)
    IN  [k \in 1..Len(l) |-> <<l[k].ev, l[k].i>>]

====
